---- MODULE Spec2Model ----
(***************************************************************************)
(* A model of main.py, the canteen annual report: the file resolver, the   *)
(* loader, the preprocessor, the meal-period classifier and the            *)
(* aggregators behind the twelve charts, as main() runs them.              *)
(*                                                                         *)
(* Amounts are integers (cents).  A quotient the code computes in floating *)
(* point is kept as an exact fraction [num, den]; den = 0 is NaN.          *)
(* Chinese literals of the source are written in ASCII, the original in a  *)
(* comment beside each.                                                    *)
(***************************************************************************)
EXTENDS Integers, Sequences, FiniteSets, TLC

(***************************************************************************)
(* Bounds of the model.                                                    *)
(***************************************************************************)
\* rows of a table handed to one aggregator
MaxRows == 3
\* rows of the data file of a whole run
MaxMainRows == 3
\* rows of a table handed to the canteen chart
MaxCanteenRows == 4
\* modification times of the files of the search directory (0: no such file)
MaxMtime == 3

VARIABLES
    pc,                 \* the statement main() is at, or the function applied
    file_path,          \* main: input_path (sys.argv[1] or DATA_FILE)
    files,              \* the search directory: file -> mtime, 0 when absent
    excel_dep,          \* whether the Excel parser (openpyxl / xlrd) is installed
    file_table,         \* the table the data file holds after its two header rows
    found,              \* find_data_file's return value
    df,                 \* main: df
    spending_df,        \* main: spending_df
    location_spending,  \* main: location_spending
    output_dir,         \* whether Outputs/ exists
    images,             \* the image files written so far
    printed,            \* the lines printed so far
    chart,              \* what the last stage computed
    error               \* the exception that ended the run, "" when none

vars == <<pc, file_path, files, excel_dep, file_table, found, df, spending_df,
          location_spending, output_dir, images, printed, chart, error>>

(***************************************************************************)
(* Small helpers.                                                          *)
(***************************************************************************)
Range(s) == {s[i] : i \in 1..Len(s)}

RECURSIVE SumSeq(_)
SumSeq(s) == IF s = <<>> THEN 0 ELSE s[1] + SumSeq(Tail(s))

\* the sequences that list every element of S once
Orders(S) ==
    {s \in [1..Cardinality(S) -> S] : \A i, j \in 1..Cardinality(S) : s[i] = s[j] => i = j}

\* sequences over S of length at most n
SeqUpTo(S, n) == UNION {[1..k -> S] : k \in 0..n}

(***************************************************************************)
(* Tables.  A frame is its set of columns and its rows in order; a row     *)
(* carries its index label idx and one cell per column the program knows:  *)
(*   time      交易时间      text, a Timestamp, or NaT                     *)
(*   event     交易事件                                                    *)
(*   location  交易地点      text (a sequence of characters) or missing    *)
(*   amount    交易金额（元） in cents                                     *)
(*   meal      餐次          "" when missing                               *)
(*   date      日期          <<year, day of year>>, <<>> when missing      *)
(* A cell of a column the frame does not have holds the missing value.     *)
(***************************************************************************)
NaT == [tag |-> "NaT", v |-> <<>>]
Timestamp(y, d, h, m, s) == [tag |-> "ts", v |-> <<y, d, h, m, s>>]
\* the text "y-d h:m:s" of a cell of the file
TimeText(y, d, h, m, s) == [tag |-> "str", v |-> <<y, d, h, m, s>>]
\* a text that is no date
BadText == [tag |-> "str", v |-> <<>>]

Missing == [na |-> TRUE, s |-> <<>>]
Text(s) == [na |-> FALSE, s |-> s]

NoneFrame == [columns |-> {}, rows |-> <<>>]

year(t) == t.v[1]
dayofyear(t) == t.v[2]
hour(t) == t.v[3]
minute(t) == t.v[4]
second(t) == t.v[5]
\* Series.dt.date
dt_date(t) == <<year(t), dayofyear(t)>>

\* the first year of the model's calendar and its length in days (2024 is a leap year)
Year0 == 2025 - 1
DaysInYear0 == 365 + 1
\* date.toordinal(), counted from the first day of Year0
toordinal(d) == IF d[1] = Year0 THEN d[2] ELSE DaysInYear0 + d[2]

\* pd.to_datetime(cell, errors='coerce'): a Timestamp stays, a text that reads as
\* a date becomes its Timestamp, anything else NaT
to_datetime_mut_text_only(cell) ==
    IF cell.tag = "str" /\ Len(cell.v) = 5
    THEN Timestamp(cell.v[1], cell.v[2], cell.v[3], cell.v[4], cell.v[5])
    ELSE NaT

to_datetime(cell) ==
    IF cell.tag = "ts" THEN cell
    ELSE IF cell.tag = "str" /\ Len(cell.v) = 5
    THEN Timestamp(cell.v[1], cell.v[2], cell.v[3], cell.v[4], cell.v[5])
    ELSE NaT

\* df['time'] = pd.to_datetime(df['time'], errors='coerce')
convert_time(frame) ==
    [columns |-> frame.columns \cup {"time"},
     rows |-> [i \in 1..Len(frame.rows) |->
                 [frame.rows[i] EXCEPT !.time = to_datetime(frame.rows[i].time)]]]

\* df.dropna(subset=['time'])
dropna_time(frame) ==
    [frame EXCEPT !.rows = SelectSeq(frame.rows, LAMBDA r : r.time.tag # "NaT")]

\* df.dropna(subset=['meal'])
dropna_meal_mut_keep_all(frame) == frame

dropna_meal(frame) ==
    [frame EXCEPT !.rows = SelectSeq(frame.rows, LAMBDA r : r.meal # "")]

\* df['date'] = df['time'].dt.date
add_date(frame) ==
    [columns |-> frame.columns \cup {"date"},
     rows |-> [i \in 1..Len(frame.rows) |->
                 [frame.rows[i] EXCEPT !.date = dt_date(frame.rows[i].time)]]]

empty(frame) == frame.rows = <<>>

(***************************************************************************)
(* Meal-period classifier.                                                 *)
(***************************************************************************)
bins == <<6 * 60 + 30, 10 * 60, 15 * 60, 19 * 60 + 30, 22 * 60 + 30>>
\* 早饭, 午饭, 晚饭, 夜宵
labels == <<"breakfast", "lunch", "dinner", "late_snack">>

\* pd.cut(x, bins=b, labels=l, right=False): the label of the bin [b[i], b[i+1])
\* that holds x, missing when none does
cut_mut_right_closed(x, b, l) ==
    IF \E i \in 1..Len(l) : b[i] < x /\ x <= b[i + 1]
    THEN l[CHOOSE i \in 1..Len(l) : b[i] < x /\ x <= b[i + 1]]
    ELSE ""

cut(x, b, l) ==
    IF \E i \in 1..Len(l) : b[i] <= x /\ x < b[i + 1]
    THEN l[CHOOSE i \in 1..Len(l) : b[i] <= x /\ x < b[i + 1]]
    ELSE ""

\* minutes = dt.hour * 60 + dt.minute
minutes(t) == hour(t) * 60 + minute(t)

\* the three values prepare_meal_period_data returns: (df, labels, err)
prepare_meal_period_data(spending) ==
    LET parsed == convert_time(spending)
        timed == dropna_time(parsed)
        cutted == [columns |-> timed.columns \cup {"meal"},
                   rows |-> [i \in 1..Len(timed.rows) |->
                               [timed.rows[i] EXCEPT
                                  !.meal = cut(minutes(timed.rows[i].time), bins, labels)]]]
        kept == dropna_meal(cutted)
    IN  IF empty(timed)
        \* 没有可用于统计的交易时间数据
        THEN [df |-> NoneFrame, labels |-> <<>>, err |-> "no usable transaction time"]
        ELSE IF empty(kept)
        \* 未找到 6:30-22:30 的消费记录
        THEN [df |-> NoneFrame, labels |-> labels, err |-> "no record in 6:30-22:30"]
        ELSE [df |-> kept, labels |-> labels, err |-> ""]

(***************************************************************************)
(* Arithmetic of the aggregates.                                           *)
(***************************************************************************)
Rat(n, d) == [num |-> n, den |-> d]
NaN == Rat(0, 0)
isna(x) == x.den = 0
\* x / y in floating point, NaN when either is NaN
divide(x, y) == IF isna(x) \/ isna(y) THEN NaN ELSE Rat(x.num * y.den, x.den * y.num)
\* Series.where(cond): the value where cond holds, NaN elsewhere
where(x, cond) == IF cond THEN x ELSE NaN
fillna(x, v) == IF isna(x) THEN v ELSE x

\* the stage wrote its image / printed a message and returned / raised
Saved(title, value) == [status |-> "saved", title |-> title, msg |-> "", value |-> value]
Skipped(msg) == [status |-> "skipped", title |-> "", msg |-> msg, value |-> <<>>]
Raised(exc) == [status |-> "raised", title |-> "", msg |-> exc, value |-> <<>>]

\* the amounts of the rows of a frame, in order
amounts(rows) == [i \in 1..Len(rows) |-> rows[i].amount]

\* df.drop_duplicates(subset=cols): a row stays unless an earlier row has the
\* same cells in cols
drop_duplicates_mut_keep_all(frame, cols) == frame

drop_duplicates(frame, cols) ==
    LET rows == frame.rows
        key(i) == [c \in cols |-> rows[i][c]]
        first(i) == \A j \in 1..(i - 1) : key(j) # key(i)
        RECURSIVE keep(_)
        keep(i) == IF i > Len(rows) THEN <<>>
                   ELSE (IF first(i) THEN <<rows[i]>> ELSE <<>>) \o keep(i + 1)
    IN  [frame EXCEPT !.rows = keep(1)]

\* df.groupby('meal')[amount].sum().reindex(labels, fill_value=0)
meal_sum(frame, ls) ==
    [l \in Range(ls) |-> SumSeq(amounts(SelectSeq(frame.rows, LAMBDA r : r.meal = l)))]

\* df.groupby('meal').size().reindex(labels, fill_value=0)
meal_size(frame, ls) ==
    [l \in Range(ls) |-> Len(SelectSeq(frame.rows, LAMBDA r : r.meal = l))]

\* create_meal_period_chart: 各餐消费总额
create_meal_period_chart(spending) ==
    LET p == prepare_meal_period_data(spending) IN
    IF p.err # "" THEN Skipped(p.err)
    ELSE Saved("meal totals", meal_sum(p.df, p.labels))

\* create_meal_count_chart: 各餐次数统计
create_meal_count_chart(spending) ==
    LET p == prepare_meal_period_data(spending) IN
    IF p.err # "" THEN Skipped(p.err)
    ELSE LET dated == add_date(p.df)
             meal_counts == meal_size(drop_duplicates(dated, {"date", "meal"}), p.labels)
         IN  Saved("meal counts", meal_counts)

\* meal_spending.divide(meal_counts.where(meal_counts != 0)).fillna(0)
meal_avg_of(total, count) ==
    fillna(divide(Rat(total, 1), where(Rat(count, 1), count # 0)), Rat(0, 1))

\* create_meal_avg_chart: 各餐顿均消费
create_meal_avg_chart(spending) ==
    LET p == prepare_meal_period_data(spending) IN
    IF p.err # "" THEN Skipped(p.err)
    ELSE LET meal_spending == meal_sum(p.df, p.labels)
             dated == add_date(p.df)
             meal_counts == meal_size(drop_duplicates(dated, {"date", "meal"}), p.labels)
             meal_avg == [l \in Range(p.labels) |->
                            meal_avg_of(meal_spending[l], meal_counts[l])]
         IN  Saved("meal averages",
                   [meal_spending |-> meal_spending, meal_counts |-> meal_counts,
                    meal_avg |-> meal_avg])

(***************************************************************************)
(* Attendance rate.                                                        *)
(***************************************************************************)
\* Series.min() / Series.max() of the dates of a non-empty frame's timestamps
min_date(frame) ==
    CHOOSE d \in {dt_date(r.time) : r \in Range(frame.rows)} :
        \A r \in Range(frame.rows) : toordinal(d) <= toordinal(dt_date(r.time))
max_date(frame) ==
    CHOOSE d \in {dt_date(r.time) : r \in Range(frame.rows)} :
        \A r \in Range(frame.rows) : toordinal(d) >= toordinal(dt_date(r.time))

\* (max_date - min_date).days + 1, over the frame the dates are read from
total_days_of_mut_classified_only(df_all, classified) ==
    (toordinal(max_date(classified)) - toordinal(min_date(classified))) + 1

total_days_of(df_all, classified) ==
    (toordinal(max_date(df_all)) - toordinal(min_date(df_all))) + 1

\* create_meal_attendance_chart: 各餐出勤率
create_meal_attendance_chart(spending) ==
    LET df_all == dropna_time(convert_time(spending))
        p == prepare_meal_period_data(spending)
    IN  IF empty(df_all) THEN Skipped("no usable transaction time")
        ELSE IF p.err # "" THEN Skipped(p.err)
        ELSE LET dated == add_date(p.df)
                 total_days == total_days_of(df_all, dated)
                 meal_days == meal_size(drop_duplicates(dated, {"date", "meal"}), p.labels)
                 attendance == [l \in Range(p.labels) |->
                                  fillna(Rat(meal_days[l] * 100, total_days), Rat(0, 1))]
             IN  IF total_days = 0 THEN Skipped("no valid spending date")
                 ELSE Saved("meal attendance",
                            [meal_days |-> meal_days, total_days |-> total_days,
                             attendance |-> attendance])

(***************************************************************************)
(* Extremes table.                                                         *)
(***************************************************************************)
\* the year create_yearly_spending_chart and create_yearly_extremes_table default to
DefaultYear == 2025

\* seconds since the first midnight of the calendar: the order of Timestamps
abs_seconds(t) ==
    ((toordinal(dt_date(t)) * 24 + hour(t)) * 60 + minute(t)) * 60 + second(t)

\* dt.hour * 60 + dt.minute + dt.second / 60
clock_minutes(t) == Rat((hour(t) * 60 + minute(t)) * 60 + second(t), 60)

\* df.sort_values('time'): every order the sort may leave rows of equal time in
sort_values_time(frame) ==
    {s \in Orders(Range(frame.rows)) :
        \A i, j \in 1..Len(s) : i < j => abs_seconds(s[i].time) <= abs_seconds(s[j].time)}

label_index(l) == CHOOSE i \in 1..Len(labels) : labels[i] = l

\* the (date, meal) groups of a frame in groupby's order: by date, then by meal
group_keys(frame) ==
    LET keys == {<<r.date, r.meal>> : r \in Range(frame.rows)}
        rank(k) == toordinal(k[1]) * (Len(labels) + 1) + label_index(k[2])
    IN  CHOOSE s \in Orders(keys) : \A i, j \in 1..Len(s) : i < j => rank(s[i]) < rank(s[j])

\* groupby(...).first() of a column: the first cell of the group that is not missing
first_location_of(group) ==
    LET present == SelectSeq(group, LAMBDA r : ~r.location.na)
    IN  IF present = <<>> THEN Missing ELSE present[1].location

\* the visit the latest-late-snack row shows: the greatest clock_minutes, then the
\* greatest first_time
latest_night_of_mut_by_total(night_meals) ==
    CHOOSE m \in Range(night_meals) :
        \A o \in Range(night_meals) : o.total_amount <= m.total_amount

latest_night_of(night_meals) ==
    CHOOSE m \in Range(night_meals) :
        \A o \in Range(night_meals) :
            \/ o.clock_minutes.num < m.clock_minutes.num
            \/ /\ o.clock_minutes.num = m.clock_minutes.num
               /\ abs_seconds(o.first_time) <= abs_seconds(m.first_time)

earliest_breakfast_of(breakfast_meals) ==
    CHOOSE m \in Range(breakfast_meals) :
        \A o \in Range(breakfast_meals) :
            \/ o.clock_minutes.num > m.clock_minutes.num
            \/ /\ o.clock_minutes.num = m.clock_minutes.num
               /\ abs_seconds(o.first_time) >= abs_seconds(m.first_time)

\* pick_first_row: data.sort_values('first_time').iloc[0]
pick_first_row(data) ==
    CHOOSE m \in Range(data) :
        \A o \in Range(data) : abs_seconds(m.first_time) <= abs_seconds(o.first_time)

\* pick_max_amount: data.loc[data['total_amount'].idxmax()], the first of the maxima
pick_max_amount(data) ==
    data[CHOOSE i \in 1..Len(data) :
            /\ \A j \in 1..Len(data) : data[j].total_amount <= data[i].total_amount
            /\ \A j \in 1..(i - 1) : data[j].total_amount < data[i].total_amount]

\* 无记录
NoRecord == [location |-> Text(<<"no record">>), amount |-> 0, time |-> NaT]
\* format_row, the amount and the time before they are formatted
format_row(row) ==
    [location |-> row.first_location, amount |-> row.total_amount, time |-> row.first_time]

\* the per-visit table meal_summary, from the classified rows of the year and one
\* order sort_values left them in
meal_summary_of(dated, df_sorted) ==
    LET keys == group_keys(dated)
        in_group(rows, k) == SelectSeq(rows, LAMBDA r : r.date = k[1] /\ r.meal = k[2])
    IN  [i \in 1..Len(keys) |->
           LET first_rows == in_group(df_sorted, keys[i])
               first_location == first_location_of(first_rows)
           IN  [date |-> keys[i][1], meal |-> keys[i][2],
                first_time |-> first_rows[1].time,
                \* fillna('未知')
                first_location |-> IF first_location.na THEN Text(<<"unknown">>)
                                   ELSE first_location,
                total_amount |-> SumSeq(amounts(in_group(dated.rows, keys[i]))),
                clock_minutes |-> clock_minutes(first_rows[1].time)]]

\* the frame create_yearly_extremes_table sorts: the classified rows of the year
\* with their date, or the reason the table is skipped
extremes_input(spending, yr) ==
    LET timed == dropna_time(convert_time(spending))
        of_year == [timed EXCEPT !.rows = SelectSeq(timed.rows, LAMBDA r : year(r.time) = yr)]
        p == prepare_meal_period_data(of_year)
    IN  IF empty(of_year) THEN [err |-> "no card spending in the year", df |-> NoneFrame]
        ELSE IF p.err # "" THEN [err |-> p.err, df |-> NoneFrame]
        ELSE [err |-> "", df |-> add_date(p.df)]

\* create_yearly_extremes_table: 刷卡消费之最; df_sorted is df.sort_values('time')
create_yearly_extremes_table(spending, yr, df_sorted) ==
    LET inp == extremes_input(spending, yr) IN
    IF inp.err # "" THEN Skipped(inp.err)
    ELSE IF "location" \notin inp.df.columns THEN Raised("KeyError")
    ELSE LET meal_summary == meal_summary_of(inp.df, df_sorted)
             breakfast_meals == SelectSeq(meal_summary, LAMBDA m : m.meal = labels[1])
             night_meals == SelectSeq(meal_summary, LAMBDA m : m.meal = labels[4])
         IN  Saved("yearly extremes",
                   [meal_summary |-> meal_summary,
                    first_meal |-> format_row(pick_first_row(meal_summary)),
                    earliest_breakfast |->
                        IF breakfast_meals # <<>>
                        THEN format_row(earliest_breakfast_of(breakfast_meals))
                        ELSE NoRecord,
                    latest_night |->
                        IF night_meals # <<>>
                        THEN format_row(latest_night_of(night_meals))
                        ELSE NoRecord,
                    most_expensive |-> format_row(pick_max_amount(meal_summary))])

\* the orders create_yearly_extremes_table may sort its frame into
extremes_orders(spending, yr) ==
    LET inp == extremes_input(spending, yr) IN
    IF inp.err # "" THEN {<<>>} ELSE sort_values_time(inp.df)

(***************************************************************************)
(* File resolver.                                                          *)
(***************************************************************************)
\* the files a search directory may hold
DirFiles ==
    { [name |-> "a", ext |-> "csv"],  [name |-> "b", ext |-> "csv"],
      [name |-> "c", ext |-> "xlsx"], [name |-> "d", ext |-> "xlsx"],
      [name |-> "e", ext |-> "xls"] }

NoPath == [name |-> "", ext |-> ""]

\* file_path as main passes it: nothing, a directory, an existing file, a path
\* that does not exist
PathArgs ==
    { [kind |-> "none", file |-> NoPath],
      [kind |-> "dir", file |-> NoPath],
      [kind |-> "file", file |-> [name |-> "x", ext |-> "csv"]],
      [kind |-> "file", file |-> [name |-> "y", ext |-> "xlsx"]],
      [kind |-> "file", file |-> [name |-> "z", ext |-> "txt"]],
      [kind |-> "missing", file |-> NoPath] }

\* search_dir.glob('*.<ext>'): the files present with exactly that suffix
glob(dir, ext) == {f \in DirFiles : f.ext = ext /\ dir[f] > 0}

\* sorted(..., key=st_mtime, reverse=True): glob's order is the file system's,
\* so files of equal mtime may come in either order
sorted_by_mtime(dir, S) ==
    {s \in Orders(S) : \A i, j \in 1..Len(s) : i < j => dir[s[i]] >= dir[s[j]]}

\* the outcome of find_data_file once the three candidate lists are sorted
find_result_mut_csv_last(arg, csv_candidates, xlsx_candidates, xls_candidates) ==
    IF arg.kind = "file"
    THEN [raised |-> "", path |-> arg.file, note |-> ""]
    ELSE IF csv_candidates = <<>> /\ xlsx_candidates = <<>> /\ xls_candidates = <<>>
    THEN [raised |-> "FileNotFoundError", path |-> NoPath, note |-> ""]
    ELSE LET excel_candidates == xlsx_candidates \o xls_candidates IN
         IF excel_candidates # <<>>
         THEN [raised |-> "", path |-> excel_candidates[1],
               note |-> IF Len(excel_candidates) > 1 THEN "multiple excel" ELSE ""]
         ELSE [raised |-> "", path |-> csv_candidates[1], note |-> ""]

find_result(arg, csv_candidates, xlsx_candidates, xls_candidates) ==
    IF arg.kind = "file"
    THEN [raised |-> "", path |-> arg.file, note |-> ""]
    ELSE IF csv_candidates = <<>> /\ xlsx_candidates = <<>> /\ xls_candidates = <<>>
    THEN [raised |-> "FileNotFoundError", path |-> NoPath, note |-> ""]
    ELSE IF csv_candidates # <<>>
    THEN [raised |-> "", path |-> csv_candidates[1],
          note |-> IF Len(csv_candidates) > 1 \/ xlsx_candidates # <<>>
                      \/ xls_candidates # <<>>
                   THEN "multiple, newest csv" ELSE ""]
    ELSE LET excel_candidates == xlsx_candidates \o xls_candidates IN
         [raised |-> "", path |-> excel_candidates[1],
          note |-> IF Len(excel_candidates) > 1 THEN "multiple excel" ELSE ""]

\* every value find_data_file(arg) may return on directory dir
find_data_file(arg, dir) ==
    { find_result(arg, c, x, l) :
        c \in sorted_by_mtime(dir, glob(dir, "csv")),
        x \in sorted_by_mtime(dir, glob(dir, "xlsx")),
        l \in sorted_by_mtime(dir, glob(dir, "xls")) }

(***************************************************************************)
(* Inputs.                                                                 *)
(***************************************************************************)
\* 持卡人消费, 离线码在线消费: the two kinds that are spending
spending_events == {"cardholder spend", "offline-code online spend"}
\* 紫荆园
ZiJing == Text(<<"zi", "jing", "yuan">>)

FileColumns == {"time", "event", "location", "amount"}

\* the frame that holds the cells of s, one row each, indexed from 1
frame_of(s, columns) ==
    [columns |-> columns,
     rows |-> [i \in 1..Len(s) |->
                 [idx |-> i, time |-> s[i].time, event |-> s[i].event,
                  location |-> IF "location" \in columns THEN s[i].location ELSE Missing,
                  amount |-> s[i].amount, meal |-> "", date |-> <<>>]]]

Frames(cells, n) == {frame_of(s, FileColumns) : s \in SeqUpTo(cells, n)}

\* spending rows at the given times, places and amounts, and one with no date
Cells(times, locations, amts) ==
    [time : times \cup {BadText}, event : {"cardholder spend"},
     location : locations, amount : amts]

Mar1 == <<DefaultYear, 60>>
Mar2 == <<DefaultYear, 61>>
Jan1 == <<DefaultYear, 1>>
Jan2 == <<DefaultYear, 2>>
Dec31 == <<Year0, DaysInYear0>>

At(d, h, m, sec) == TimeText(d[1], d[2], h, m, sec)

\* the clock times on both sides of every boundary of the four periods
BoundaryCells ==
    Cells({At(Mar1, 6, 29, 59), At(Mar1, 6, 30, 0), At(Mar1, 9, 59, 0), At(Mar1, 10, 0, 0),
           At(Mar1, 14, 59, 0), At(Mar1, 15, 0, 0), At(Mar1, 19, 29, 0),
           At(Mar1, 19, 30, 0), At(Mar1, 22, 29, 59), At(Mar1, 22, 30, 0)},
          {ZiJing}, {1000})

\* swipes and a refund on two days, in and out of the window
AverageCells ==
    Cells({At(Mar1, 7, 0, 0), At(Mar1, 7, 10, 0), At(Mar2, 7, 0, 0), At(Mar1, 12, 0, 0),
           At(Mar1, 23, 0, 0)},
          {ZiJing}, {500, 1000, -300})

\* swipes over three days and the turn of the year, in and out of the window
AttendanceCells ==
    Cells({At(d, 7, 0, 0) : d \in {Dec31, Jan1, Jan2}}
            \cup {At(d, 12, 0, 0) : d \in {Dec31, Jan1, Jan2}}
            \cup {At(d, 23, 0, 0) : d \in {Dec31, Jan1, Jan2}},
          {ZiJing}, {1000})

\* evening swipes of two years
ExtremesCells ==
    Cells({At(d, 20, 0, 0) : d \in {Dec31, Mar1, Mar2}}
            \cup {At(d, 21, 0, 0) : d \in {Dec31, Mar1, Mar2}}
            \cup {At(d, 23, 0, 0) : d \in {Mar1, Mar2}}
            \cup {At(Mar1, 7, 0, 0), At(Mar2, 20, 0, 30)},
          {ZiJing}, {500})

\* 桃李园
TaoLi == Text(<<"tao", "li", "yuan">>)

\* evening swipes of one visit at two canteens or with no place, seconds apart, and
\* of two other visits
FirstLocationCells ==
    Cells({At(Mar1, 20, 0, 0), At(Mar1, 20, 0, 30), At(Mar1, 21, 0, 0), At(Mar2, 20, 0, 0)},
          {ZiJing, TaoLi, Missing}, {500})

\* lunches at two canteens on three days, a dinner, a lunch with no place
CanteenCells ==
    [time : {At(d, 12, 0, 0) : d \in {Jan1, Mar1, Mar2}}, event : {"cardholder spend"},
     location : {ZiJing, TaoLi}, amount : {500}]
      \cup Cells({At(Mar1, 18, 0, 0)}, {ZiJing}, {500})
      \cup Cells({At(Mar1, 12, 0, 0)}, {Missing}, {500})

(***************************************************************************)
(* Preprocessor and location totals.                                       *)
(***************************************************************************)
\* 楼 | 天猫 | 学生卡成本: the alternatives of the pattern of preprocess_data
denylist ==
    {<<"lou">>, <<"tian", "mao">>, <<"xue", "sheng", "ka", "cheng", "ben">>}

\* Series.str.contains(pat, na=na) of one cell: whether some alternative of the
\* pattern occurs somewhere in the text; na for a missing cell
str_contains_mut_na_true(cell, alternatives, na) ==
    IF cell.na THEN TRUE
    ELSE \E a \in alternatives : \E i \in 1..Len(cell.s) :
            i + Len(a) - 1 <= Len(cell.s) /\ SubSeq(cell.s, i, i + Len(a) - 1) = a

str_contains(cell, alternatives, na) ==
    IF cell.na THEN na
    ELSE \E a \in alternatives : \E i \in 1..Len(cell.s) :
            i + Len(a) - 1 <= Len(cell.s) /\ SubSeq(cell.s, i, i + Len(a) - 1) = a

\* preprocess_data: [raised, df].  The .str accessor needs a column of text: a
\* column of a non-empty table in which every location is missing is read as a
\* column of floats, and .str raises AttributeError on it.
preprocess_data(frame) ==
    IF "location" \notin frame.columns THEN [raised |-> "", df |-> frame]
    ELSE IF frame.rows # <<>> /\ \A r \in Range(frame.rows) : r.location.na
    THEN [raised |-> "AttributeError", df |-> NoneFrame]
    ELSE [raised |-> "",
          df |-> [frame EXCEPT !.rows =
                    SelectSeq(frame.rows,
                              LAMBDA r : ~str_contains(r.location, denylist, FALSE))]]

\* df[df['event'].isin([...])].copy()
filter_spending(frame) ==
    [frame EXCEPT !.rows = SelectSeq(frame.rows, LAMBDA r : r.event \in spending_events)]

\* the keys of groupby('location'): a missing location forms no group
location_keys(frame) == {r.location : r \in {x \in Range(frame.rows) : ~x.location.na}}

\* groupby('location')[amount].sum()
location_sum(frame) ==
    [c \in location_keys(frame) |->
        SumSeq(amounts(SelectSeq(frame.rows, LAMBDA r : r.location = c)))]

\* .sort_values(ascending=False): every order the sort may leave equal totals in
location_spending_of(frame) ==
    LET totals == location_sum(frame) IN
    {[i \in 1..Len(o) |-> [location |-> o[i], total |-> totals[o[i]]]] :
        o \in {s \in Orders(DOMAIN totals) :
                 \A i, j \in 1..Len(s) : i < j => totals[s[i]] >= totals[s[j]]}}

(***************************************************************************)
(* The charts of the location totals.                                      *)
(***************************************************************************)
\* create_bar_chart: 各食堂消费总额统计（柱形图）.  Series.plot(kind='bar') of a
\* Series with no entry raises (IndexError at the first tick position, TypeError
\* "no numeric data to plot" in older pandas); the function has no guard for it.
create_bar_chart(location_totals) ==
    IF location_totals = <<>> THEN Raised("plot of an empty Series")
    ELSE Saved("location totals (bar)", location_totals)

\* min_percent
MinPercent == 3
\* 其他
Other == Text(<<"qi", "ta">>)

\* create_pie_chart: 各食堂消费总额统计（扇形图）
create_pie_chart(location_totals) ==
    LET values == [i \in 1..Len(location_totals) |-> location_totals[i].total]
        total == SumSeq(values)
        \* shares = location_spending / total * 100, compared with min_percent
        major == SelectSeq(location_totals, LAMBDA e : e.total * 100 >= MinPercent * total)
        minor == SelectSeq(location_totals, LAMBDA e : e.total * 100 < MinPercent * total)
        minor_sum == SumSeq([i \in 1..Len(minor) |-> minor[i].total])
        data == IF total > 0 /\ minor # <<>>
                THEN Append(major, [location |-> Other, total |-> minor_sum])
                ELSE location_totals
    IN  \* ax.pie refuses a negative wedge
        IF \E i \in 1..Len(data) : data[i].total < 0 THEN Raised("ValueError of a negative wedge")
        ELSE Saved("location totals (pie)", data)

(***************************************************************************)
(* The charts by month and year.                                           *)
(***************************************************************************)
leap(y) == y % 4 = 0 /\ (y % 100 # 0 \/ y % 400 = 0)
month_days(y) == <<31, IF leap(y) THEN 29 ELSE 28, 31, 30, 31, 30, 31, 31, 30, 31, 30, 31>>
\* dt.month
month(t) ==
    CHOOSE k \in 1..12 :
        /\ dayofyear(t) <= SumSeq(SubSeq(month_days(year(t)), 1, k))
        /\ dayofyear(t) > SumSeq(SubSeq(month_days(year(t)), 1, k - 1))

\* create_yearly_spending_chart: 年食堂消费统计
create_yearly_spending_chart(all_df, yr) ==
    LET timed == dropna_time(convert_time(all_df))
        of_year == SelectSeq(timed.rows, LAMBDA r : year(r.time) = yr)
        spent == SelectSeq(of_year, LAMBDA r : r.event \in spending_events)
    IN  IF of_year = <<>> THEN Skipped("no transaction in the year")
        ELSE Saved("yearly spending",
                   [spending_total |-> SumSeq(amounts(spent)),
                    monthly |-> [k \in 1..12 |->
                        SumSeq(amounts(SelectSeq(spent, LAMBDA r : month(r.time) = k)))]])

\* create_monthly_daily_avg_chart: 各月份日均食堂消费
create_monthly_daily_avg_chart(spending) ==
    LET timed == dropna_time(convert_time(spending))
        dates == {dt_date(r.time) : r \in Range(timed.rows)}
        daily_totals == [d \in dates |->
            SumSeq(amounts(SelectSeq(timed.rows, LAMBDA r : dt_date(r.time) = d)))]
        \* dt.to_period('M')
        period(d) == <<d[1], month(Timestamp(d[1], d[2], 0, 0, 0))>>
        days_of(ym) == {d \in dates : period(d) = ym}
        RECURSIVE sum_days(_)
        sum_days(S) == IF S = {} THEN 0
                       ELSE LET d == CHOOSE x \in S : TRUE
                            IN  daily_totals[d] + sum_days(S \ {d})
    IN  IF empty(timed) THEN Skipped("no usable transaction time")
        ELSE Saved("monthly daily average",
                   [ym \in {period(d) : d \in dates} |->
                        Rat(sum_days(days_of(ym)), Cardinality(days_of(ym)))])

(***************************************************************************)
(* The charts by meal period and canteen.                                  *)
(***************************************************************************)
\* the sum of f over the finite set S
RECURSIVE SumOver(_, _)
SumOver(f, S) ==
    IF S = {} THEN 0
    ELSE LET x == CHOOSE y \in S : TRUE IN f[x] + SumOver(f, S \ {x})

\* create_canteen_avg_per_meal_chart: 各食堂顿均消费 (the order of the bars,
\* sort_values(ascending=False), is not kept)
create_canteen_avg_per_meal_chart(spending) ==
    LET p == prepare_meal_period_data(spending) IN
    IF p.err # "" THEN Skipped(p.err)
    ELSE IF "location" \notin p.df.columns THEN Skipped("no location column")
    ELSE LET dated == add_date(p.df)
             total_spending == location_sum(dated)
             visits == drop_duplicates(dated, {"date", "meal", "location"})
             meal_counts == [c \in location_keys(visits) |->
                 Len(SelectSeq(visits.rows, LAMBDA r : r.location = c))]
             avg_spending == [c \in DOMAIN total_spending |->
                 fillna(divide(Rat(total_spending[c], 1),
                               where(Rat(meal_counts[c], 1), meal_counts[c] # 0)),
                        Rat(0, 1))]
         IN  IF DOMAIN avg_spending = {} THEN Skipped("no canteen data")
             ELSE Saved("canteen averages", avg_spending)

\* create_meal_first_last_time_chart: 各餐第一笔与最后一笔消费时间
create_meal_first_last_time_chart(spending) ==
    LET p == prepare_meal_period_data(spending) IN
    IF p.err # "" THEN Skipped(p.err)
    ELSE LET dated == add_date(p.df)
             keys == {<<r.date, r.meal>> : r \in Range(dated.rows)}
             times(k) == {r.time : r \in {x \in Range(dated.rows) :
                                             x.date = k[1] /\ x.meal = k[2]}}
             \* agg(first='min', last='max') and their minutes of the day
             first(k) == CHOOSE t \in times(k) :
                            \A u \in times(k) : abs_seconds(t) <= abs_seconds(u)
             last(k) == CHOOSE t \in times(k) :
                            \A u \in times(k) : abs_seconds(t) >= abs_seconds(u)
             first_minute == [k \in keys |-> clock_minutes(first(k)).num]
             last_minute == [k \in keys |-> clock_minutes(last(k)).num]
             of_meal(l) == {k \in keys : k[2] = l}
             summary == [l \in Range(p.labels) |->
                 IF of_meal(l) = {} THEN [first_minute |-> NaN, last_minute |-> NaN,
                                          avg_first_minute |-> NaN]
                 ELSE [first_minute |->
                          Rat(CHOOSE m \in {first_minute[k] : k \in of_meal(l)} :
                                 \A k \in of_meal(l) : m <= first_minute[k], 60),
                       last_minute |->
                          Rat(CHOOSE m \in {last_minute[k] : k \in of_meal(l)} :
                                 \A k \in of_meal(l) : m >= last_minute[k], 60),
                       avg_first_minute |->
                          Rat(SumOver(first_minute, of_meal(l)),
                              60 * Cardinality(of_meal(l)))]]
         IN  IF keys = {} THEN Skipped("no meal data")
             ELSE Saved("meal first and last time", summary)

\* the count below which a canteen of a period is merged into 其他
OtherBelow == 3

\* row[row > 0]: the canteens a period's row of meal_canteen counts a visit for
positive_of(row) == {c \in DOMAIN row : row[c] > 0}
\* row.sum() of row[row > 0]
row_sum_of(row) == SumOver(row, positive_of(row))
\* row[row < 3] of row[row > 0]
small_of(row) == {c \in positive_of(row) : row[c] < OtherBelow}

\* need_others: some period of at least three visits has a canteen of fewer
need_others_of_mut_any_small(meal_canteen) ==
    \E l \in DOMAIN meal_canteen : small_of(meal_canteen[l]) # {}

need_others_of(meal_canteen) ==
    \E l \in DOMAIN meal_canteen :
        /\ positive_of(meal_canteen[l]) # {}
        /\ row_sum_of(meal_canteen[l]) >= OtherBelow
        /\ small_of(meal_canteen[l]) # {}

\* the segments drawn for a period, canteen -> count: in a period of at least three
\* visits the canteens of fewer are drawn as one segment 其他
segments_of_mut_never_merged(row) == [c \in positive_of(row) |-> row[c]]

segments_of(row) ==
    IF row_sum_of(row) >= OtherBelow
    THEN LET kept == positive_of(row) \ small_of(row)
         IN  [c \in kept \cup (IF small_of(row) # {} THEN {Other} ELSE {})
                |-> IF c \in kept THEN row[c] ELSE SumOver(row, small_of(row))]
    ELSE [c \in positive_of(row) |-> row[c]]

\* create_meal_canteen_chart: 每餐去哪家食堂（次数） (the order of the segments of a
\* bar is not kept)
create_meal_canteen_chart(spending) ==
    LET p == prepare_meal_period_data(spending) IN
    IF p.err # "" THEN Skipped(p.err)
    ELSE IF "location" \notin p.df.columns THEN Skipped("no location column")
    ELSE LET dedup == drop_duplicates(add_date(p.df), {"date", "meal", "location"})
             columns == location_keys(dedup)
             \* groupby(['meal', 'location']).size().unstack(fill_value=0).reindex(labels)
             meal_canteen == [l \in Range(p.labels) |-> [c \in columns |->
                 Len(SelectSeq(dedup.rows, LAMBDA r : r.meal = l /\ r.location = c))]]
             totals == [c \in columns |->
                 SumOver([l \in Range(p.labels) |-> meal_canteen[l][c]], Range(p.labels))]
             canteens == {c \in columns : totals[c] > 0}
             need_others == need_others_of(meal_canteen)
             canteen_colors == canteens \cup (IF need_others THEN {Other} ELSE {})
             segments == [l \in Range(p.labels) |-> segments_of(meal_canteen[l])]
         IN  IF columns = {} \/ SumOver(totals, columns) = 0 THEN Skipped("no canteen data")
             ELSE IF canteens = {} THEN Skipped("no canteen data")
             \* canteen_colors[canteen] of a segment with no colour
             ELSE IF \E l \in Range(p.labels) : ~(DOMAIN segments[l] \subseteq canteen_colors)
             THEN Raised("KeyError")
             ELSE Saved("meal canteen",
                        [meal_canteen |-> meal_canteen, need_others |-> need_others,
                         canteen_colors |-> canteen_colors, segments |-> segments])

(***************************************************************************)
(* The aggregators applied to a table on their own.                        *)
(***************************************************************************)
InitTable(cells, n) ==
    /\ pc = "input"
    /\ spending_df \in Frames(cells, n)
    /\ chart = <<>>
    /\ file_path = [kind |-> "none", file |-> NoPath]
    /\ files = [f \in DirFiles |-> 0]
    /\ excel_dep = TRUE
    /\ file_table = NoneFrame
    /\ found = NoPath
    /\ df = NoneFrame
    /\ location_spending = <<>>
    /\ output_dir = FALSE
    /\ images = {}
    /\ printed = <<>>
    /\ error = ""

Apply(from, to, value) ==
    /\ pc = from
    /\ pc' = to
    /\ chart' = value
    /\ UNCHANGED <<file_path, files, excel_dep, file_table, found, df, spending_df,
                   location_spending, output_dir, images, printed, error>>

Classify == Apply("input", "classified", prepare_meal_period_data(spending_df))

\* the classifier applied to the table it returned
Reclassify ==
    /\ pc = "classified"
    /\ chart.err = ""
    /\ Apply("classified", "reclassified",
             [first |-> chart, second |-> prepare_meal_period_data(chart.df)])

MealCount == Apply("input", "meal_count", create_meal_count_chart(spending_df))
MealAvg == Apply("input", "meal_avg", create_meal_avg_chart(spending_df))
Attendance == Apply("input", "attendance", create_meal_attendance_chart(spending_df))
MealCanteen == Apply("input", "meal_canteen", create_meal_canteen_chart(spending_df))
Extremes ==
    \E df_sorted \in extremes_orders(spending_df, DefaultYear) :
        Apply("input", "extremes",
              create_yearly_extremes_table(spending_df, DefaultYear, df_sorted))

SpecClassify == InitTable(BoundaryCells, MaxRows) /\ [][Classify \/ Reclassify]_vars
SpecMealAvg == InitTable(AverageCells, MaxRows) /\ [][MealCount \/ MealAvg]_vars
SpecAttendance == InitTable(AttendanceCells, MaxRows) /\ [][Attendance]_vars
SpecExtremes == InitTable(ExtremesCells, MaxRows) /\ [][Extremes]_vars
SpecFirstLocation == InitTable(FirstLocationCells, MaxRows) /\ [][Extremes]_vars
SpecCanteen == InitTable(CanteenCells, MaxCanteenRows) /\ [][MealCanteen]_vars

(***************************************************************************)
(* Loader.                                                                 *)
(***************************************************************************)
\* load_data: [raised, df]; table is what the file holds, dep whether the Excel
\* parser of its format is installed
load_data(path, table, dep) ==
    IF path.ext = "csv" THEN [raised |-> "", df |-> table]
    ELSE IF path.ext \in {"xlsx", "xls"}
    THEN (IF dep THEN [raised |-> "", df |-> table]
          ELSE [raised |-> "ImportError", df |-> NoneFrame])
    ELSE [raised |-> "ValueError", df |-> NoneFrame]

(***************************************************************************)
(* main().                                                                 *)
(***************************************************************************)
\* the rows of a data file: spending and top-up (充值), at a canteen, at the
\* e-commerce platform (天猫超市) or with no location, with and without a date
TianMao == Text(<<"tian", "mao", "chao", "shi">>)
MainCells ==
    [time : {At(Mar1, 7, 0, 0), BadText}, event : {"cardholder spend", "top-up"},
     location : {ZiJing, TianMao, Missing}, amount : {1000}]

\* a data file with or without the location column
MainTables ==
    {frame_of(t, cols) : t \in SeqUpTo(MainCells, MaxMainRows),
                         cols \in {FileColumns, FileColumns \ {"location"}}}

Dir(present) == [f \in DirFiles |-> IF f \in present THEN 1 ELSE 0]

\* the argument, the directory and the installed parsers of a run
MainEnvs ==
    { [arg |-> [kind |-> "none", file |-> NoPath],
       dir |-> Dir({[name |-> "a", ext |-> "csv"]}), dep |-> TRUE],
      [arg |-> [kind |-> "dir", file |-> NoPath],
       dir |-> Dir({[name |-> "c", ext |-> "xlsx"]}), dep |-> TRUE],
      [arg |-> [kind |-> "none", file |-> NoPath], dir |-> Dir({}), dep |-> TRUE],
      [arg |-> [kind |-> "missing", file |-> NoPath],
       dir |-> Dir({[name |-> "e", ext |-> "xls"]}), dep |-> FALSE],
      [arg |-> [kind |-> "file", file |-> [name |-> "z", ext |-> "txt"]],
       dir |-> Dir({}), dep |-> TRUE] }

InitRun(env, table) ==
    /\ pc = "find_data_file"
    /\ file_path = env.arg
    /\ files = env.dir
    /\ excel_dep = env.dep
    /\ file_table = table
    /\ found = NoPath
    /\ df = NoneFrame
    /\ spending_df = NoneFrame
    /\ location_spending = <<>>
    /\ output_dir = FALSE
    /\ images = {}
    /\ printed = <<>>
    /\ chart = <<>>
    /\ error = ""

Init == \E env \in MainEnvs, table \in MainTables : InitRun(env, table)

\* an exception nothing catches ends the run
Abort(exc) == pc' = "aborted" /\ error' = exc

\* file_path = find_data_file(input_path)
main_find_data_file ==
    /\ pc = "find_data_file"
    /\ \E r \in find_data_file(file_path, files) :
          /\ IF r.raised # "" THEN Abort(r.raised) /\ found' = found
             ELSE pc' = "load_data" /\ found' = r.path /\ error' = error
          /\ printed' = IF r.note # "" THEN Append(printed, r.note) ELSE printed
    /\ UNCHANGED <<file_path, files, excel_dep, file_table, df, spending_df,
                   location_spending, output_dir, images, chart>>

\* df = load_data(file_path)
main_load_data_mut_mkdir_first ==
    /\ pc = "load_data"
    /\ output_dir' = TRUE
    /\ LET r == load_data(found, file_table, excel_dep) IN
          IF r.raised # "" THEN Abort(r.raised) /\ df' = df
          ELSE pc' = "preprocess_data" /\ df' = r.df /\ error' = error
    /\ UNCHANGED <<file_path, files, excel_dep, file_table, found, spending_df,
                   location_spending, images, printed, chart>>

main_load_data ==
    /\ pc = "load_data"
    /\ LET r == load_data(found, file_table, excel_dep) IN
          IF r.raised # "" THEN Abort(r.raised) /\ df' = df
          ELSE pc' = "preprocess_data" /\ df' = r.df /\ error' = error
    /\ UNCHANGED <<file_path, files, excel_dep, file_table, found, spending_df,
                   location_spending, output_dir, images, printed, chart>>

\* df = preprocess_data(df)
main_preprocess_data ==
    /\ pc = "preprocess_data"
    /\ LET r == preprocess_data(df) IN
          IF r.raised # "" THEN Abort(r.raised) /\ df' = df
          ELSE pc' = "filter_spending" /\ df' = r.df /\ error' = error
    /\ UNCHANGED <<file_path, files, excel_dep, file_table, found, spending_df,
                   location_spending, output_dir, images, printed, chart>>

\* spending_df = df[df['event'].isin([...])].copy()
main_filter_spending ==
    /\ pc = "filter_spending"
    /\ spending_df' = filter_spending(df)
    /\ pc' = "location_spending"
    /\ UNCHANGED <<file_path, files, excel_dep, file_table, found, df,
                   location_spending, output_dir, images, printed, chart, error>>

\* location_spending = spending_df.groupby('location')[amount].sum().sort_values(...)
main_location_spending ==
    /\ pc = "location_spending"
    /\ IF "location" \notin spending_df.columns
       THEN Abort("KeyError") /\ location_spending' = location_spending
       ELSE /\ location_spending' \in location_spending_of(spending_df)
            /\ pc' = "mkdir"
            /\ error' = error
    /\ UNCHANGED <<file_path, files, excel_dep, file_table, found, df, spending_df,
                   output_dir, images, printed, chart>>

\* setup_chinese_font(); output_dir.mkdir(parents=True, exist_ok=True)
main_mkdir ==
    /\ pc = "mkdir"
    /\ output_dir' = TRUE
    /\ pc' = "create_bar_chart"
    /\ UNCHANGED <<file_path, files, excel_dep, file_table, found, df, spending_df,
                   location_spending, images, printed, chart, error>>

\* the twelve stages in the order main calls them
Stages ==
    <<"create_bar_chart", "create_pie_chart", "create_yearly_spending_chart",
      "create_monthly_daily_avg_chart", "create_meal_period_chart",
      "create_meal_count_chart", "create_meal_avg_chart",
      "create_canteen_avg_per_meal_chart", "create_yearly_extremes_table",
      "create_meal_first_last_time_chart", "create_meal_attendance_chart",
      "create_meal_canteen_chart">>

\* the statement after stage name
after(name) ==
    LET i == CHOOSE k \in 1..Len(Stages) : Stages[k] = name
    IN  IF i = Len(Stages) THEN "print_summary" ELSE Stages[i + 1]

\* A name of a stage is bound to an object: the table main passed (caller), or one
\* the stage made. DataFrame.copy() makes a new object with the same cells.
copy_mut_alias(ref) == ref

copy(ref) == [ref EXCEPT !.caller = FALSE]

\* df[column] = values: the object the name is bound to takes the new cells
setitem(ref, frame) == [ref EXCEPT !.frame = frame]

\* the table main holds after a stage it passed the table to. Every such stage, or
\* prepare_meal_period_data for it, starts with df = table.copy() and
\* df['time'] = pd.to_datetime(df['time'], errors='coerce'); every later
\* assignment of a column is to the result of a dropna or a selection, which is a
\* new object.
table_after_call(table) ==
    LET passed == [caller |-> TRUE, frame |-> table]
        working == setitem(copy(passed), convert_time(table))
    IN  IF working.caller THEN working.frame ELSE table

\* one call of a stage that is passed location_spending, df or spending_df: it saves
\* its image, or prints its message and returns, or raises
Stage(name, outcome, passed) ==
    /\ pc = name
    /\ chart' = outcome
    /\ images' = IF outcome.status = "saved" THEN images \cup {outcome.title} ELSE images
    /\ printed' = IF outcome.status = "skipped" THEN Append(printed, outcome.msg)
                  ELSE printed
    /\ IF outcome.status = "raised" THEN Abort(outcome.msg)
       ELSE pc' = after(name) /\ error' = error
    /\ df' = IF passed = "df" THEN table_after_call(df) ELSE df
    /\ spending_df' = IF passed = "spending_df" THEN table_after_call(spending_df)
                      ELSE spending_df
    /\ UNCHANGED <<file_path, files, excel_dep, file_table, found, location_spending,
                   output_dir>>

main_create_bar_chart == Stage("create_bar_chart", create_bar_chart(location_spending),
          "location_spending")
main_create_pie_chart == Stage("create_pie_chart", create_pie_chart(location_spending),
          "location_spending")
main_create_yearly_spending_chart ==
    Stage("create_yearly_spending_chart", create_yearly_spending_chart(df, DefaultYear),
          "df")
main_create_monthly_daily_avg_chart ==
    Stage("create_monthly_daily_avg_chart", create_monthly_daily_avg_chart(spending_df),
          "spending_df")
main_create_meal_period_chart ==
    Stage("create_meal_period_chart", create_meal_period_chart(spending_df),
          "spending_df")
main_create_meal_count_chart ==
    Stage("create_meal_count_chart", create_meal_count_chart(spending_df),
          "spending_df")
main_create_meal_avg_chart ==
    Stage("create_meal_avg_chart", create_meal_avg_chart(spending_df),
          "spending_df")
main_create_canteen_avg_per_meal_chart ==
    Stage("create_canteen_avg_per_meal_chart",
          create_canteen_avg_per_meal_chart(spending_df),
          "spending_df")
main_create_yearly_extremes_table ==
    \E df_sorted \in extremes_orders(spending_df, DefaultYear) :
        Stage("create_yearly_extremes_table",
              create_yearly_extremes_table(spending_df, DefaultYear, df_sorted),
              "spending_df")
main_create_meal_first_last_time_chart ==
    Stage("create_meal_first_last_time_chart",
          create_meal_first_last_time_chart(spending_df),
          "spending_df")
main_create_meal_attendance_chart ==
    Stage("create_meal_attendance_chart", create_meal_attendance_chart(spending_df),
          "spending_df")
main_create_meal_canteen_chart ==
    Stage("create_meal_canteen_chart", create_meal_canteen_chart(spending_df),
          "spending_df")

\* print("统计结果："); print(location_spending)
main_print_summary ==
    /\ pc = "print_summary"
    /\ printed' = Append(printed, "summary")
    /\ pc' = "done"
    /\ UNCHANGED <<file_path, files, excel_dep, file_table, found, df, spending_df,
                   location_spending, output_dir, images, chart, error>>

Next ==
    \/ main_find_data_file
    \/ main_load_data
    \/ main_preprocess_data
    \/ main_filter_spending
    \/ main_location_spending
    \/ main_mkdir
    \/ main_create_bar_chart
    \/ main_create_pie_chart
    \/ main_create_yearly_spending_chart
    \/ main_create_monthly_daily_avg_chart
    \/ main_create_meal_period_chart
    \/ main_create_meal_count_chart
    \/ main_create_meal_avg_chart
    \/ main_create_canteen_avg_per_meal_chart
    \/ main_create_yearly_extremes_table
    \/ main_create_meal_first_last_time_chart
    \/ main_create_meal_attendance_chart
    \/ main_create_meal_canteen_chart
    \/ main_print_summary

Spec == Init /\ [][Next]_vars

(***************************************************************************)
(* The file resolver on every directory.                                   *)
(***************************************************************************)
InitFind ==
    \E arg \in PathArgs, dir \in [DirFiles -> 0..MaxMtime] :
        InitRun([arg |-> arg, dir |-> dir, dep |-> TRUE], NoneFrame)

SpecFind == InitFind /\ [][main_find_data_file]_vars

(***************************************************************************)
(* What the claims speak of, read from the input table alone.              *)
(***************************************************************************)
\* the rows of the input whose time text reads as a date
Parseable(frame) == {r \in Range(frame.rows) : r.time.tag = "str" /\ Len(r.time.v) = 5}
\* minutes since midnight of such a row
MinuteOfDay(r) == r.time.v[3] * 60 + r.time.v[4]
DateOf(r) == <<r.time.v[1], r.time.v[2]>>
\* the meal period the specification gives a minute of the day, "" for none
PeriodOf(m) ==
    IF 390 <= m /\ m < 600 THEN "breakfast"
    ELSE IF 600 <= m /\ m < 900 THEN "lunch"
    ELSE IF 900 <= m /\ m < 1170 THEN "dinner"
    ELSE IF 1170 <= m /\ m < 1350 THEN "late_snack"
    ELSE ""
\* the transactions of the input that fall in period l
InPeriod(frame, l) == {r \in Parseable(frame) : PeriodOf(MinuteOfDay(r)) = l}
\* the sum of the amounts of a set of rows of a frame
AmountOf(frame, S) == SumSeq(amounts(SelectSeq(frame.rows, LAMBDA r : r \in S)))
Periods == {"breakfast", "lunch", "dinner", "late_snack"}

(***************************************************************************)
(* The claims.                                                             *)
(***************************************************************************)

\* C1: a transaction with a parseable timestamp is given a meal period iff its
\* minute of the day m has 390 <= m < 1350, and then the one label of its interval:
\* breakfast [390,600), lunch [600,900), dinner [900,1170), late snack [1170,1350).
C1_MealPeriodWindow ==
    pc = "classified" =>
        \A r \in Parseable(spending_df) :
            LET out == {o \in Range(chart.df.rows) : o.idx = r.idx}
                m == MinuteOfDay(r)
            IN  /\ (out # {}) <=> (390 <= m /\ m < 1350)
                /\ Cardinality(out) <= 1
                /\ \A o \in out : o.meal = PeriodOf(m) /\ o.meal \in Periods

\* C1: 06:29 and 22:30 were dropped and 06:30 kept, as breakfast
C1_Witness ==
    /\ pc = "classified"
    /\ {MinuteOfDay(r) : r \in Parseable(spending_df)} = {389, 390, 1350}
    /\ Len(chart.df.rows) = 1
    /\ chart.df.rows[1].meal = "breakfast"

\* C5: the classifier applied to the table it returned returns the same rows, each
\* with the same meal period, and no skip reason.
C5_ClassifyIdempotent ==
    pc = "reclassified" =>
        /\ chart.second.err = ""
        /\ chart.second.labels = chart.first.labels
        /\ chart.second.df = chart.first.df

\* C5: a table that lost a row to the first classification and kept two was
\* classified again
C5_Witness ==
    /\ pc = "reclassified"
    /\ Len(chart.first.df.rows) = 2
    /\ Len(spending_df.rows) = 3
    /\ chart.first.df.rows[1].meal # chart.first.df.rows[2].meal

\* C2: for every meal period the visit count is the number of distinct dates with a
\* transaction in the period, the total is the sum of those transactions' amounts,
\* and the average is total / count when count > 0 and 0 when count = 0; no stage
\* raises.
C2_MealAverage ==
    /\ pc \in {"meal_count", "meal_avg"} => chart.status # "raised"
    /\ (pc = "meal_count" /\ chart.status = "saved") =>
          \A l \in Periods :
              chart.value[l] = Cardinality({DateOf(r) : r \in InPeriod(spending_df, l)})
    /\ (pc = "meal_avg" /\ chart.status = "saved") =>
          \A l \in Periods :
              LET count == Cardinality({DateOf(r) : r \in InPeriod(spending_df, l)})
                  total == AmountOf(spending_df, InPeriod(spending_df, l))
                  avg == chart.value.meal_avg[l]
              IN  /\ chart.value.meal_counts[l] = count
                  /\ chart.value.meal_spending[l] = total
                  /\ avg.den # 0
                  /\ count > 0 => avg.num * count = total * avg.den
                  /\ count = 0 => avg.num = 0

\* C2: two breakfast swipes of 10.00 and 5.00 on one day gave total 15.00, count 1
\* and average 15.00, and a period with no visit an average of 0
C2_Witness ==
    /\ pc = "meal_avg"
    /\ chart.status = "saved"
    /\ Len(spending_df.rows) = 2
    /\ chart.value.meal_spending["breakfast"] = 1500
    /\ chart.value.meal_counts["breakfast"] = 1
    /\ chart.value.meal_avg["breakfast"].num = 1500 * chart.value.meal_avg["breakfast"].den
    /\ chart.value.meal_counts["lunch"] = 0
    /\ chart.value.meal_avg["lunch"].num = 0

\* C4: the attendance rate of a period is 100 * (distinct dates with a visit in the
\* period) / (days from the earliest to the latest parseable date of the whole
\* table, inclusive, whatever the hour), never exceeds 100, and is 100 for the one
\* visit of a table of a single day.
C4_AttendanceRate ==
    (pc = "attendance" /\ chart.status = "saved") =>
        LET ords == {toordinal(DateOf(r)) : r \in Parseable(spending_df)}
            lo == CHOOSE o \in ords : \A x \in ords : o <= x
            hi == CHOOSE o \in ords : \A x \in ords : o >= x
            span == hi - lo + 1
        IN  \A l \in Periods :
                LET days == Cardinality({DateOf(r) : r \in InPeriod(spending_df, l)})
                    rate == chart.value.attendance[l]
                IN  /\ rate.den > 0
                    /\ rate.num * span = 100 * days * rate.den
                    /\ rate.num <= 100 * rate.den
                    /\ (span = 1 /\ days = 1) => rate.num = 100 * rate.den

\* C4: a swipe outside the window stretched the span to three days, and the one
\* breakfast day gave a rate of 100/3
C4_Witness ==
    /\ pc = "attendance"
    /\ chart.status = "saved"
    /\ \E r \in Parseable(spending_df) : PeriodOf(MinuteOfDay(r)) = "" /\ DateOf(r) = Jan2
    /\ {DateOf(r) : r \in InPeriod(spending_df, "breakfast")} = {Dec31}
    /\ chart.value.total_days = 3
    /\ chart.value.attendance["breakfast"] = Rat(100, 3)

\* C10: the latest-late-snack row is chosen among the visits of the year that were
\* classified late snack: the visit whose first transaction has the greatest clock
\* time, the latest timestamp among equals; a transaction outside [19:30,22:30) is
\* neither selected nor counted in a visit.
C10_LatestLateSnack ==
    (pc = "extremes" /\ chart.status = "saved") =>
        LET of_year == {r \in Parseable(spending_df) : r.time.v[1] = DefaultYear}
            night == {r \in of_year : PeriodOf(MinuteOfDay(r)) = "late_snack"}
            clock(r) == (r.time.v[3] * 60 + r.time.v[4]) * 60 + r.time.v[5]
            \* the first transaction of the visit of r's date
            first(r) == \A o \in night : DateOf(o) = DateOf(r) => clock(r) <= clock(o)
            firsts == {r \in night : first(r)}
            best == {r \in firsts : \A o \in firsts :
                        \/ clock(o) < clock(r)
                        \/ clock(o) = clock(r)
                             /\ toordinal(DateOf(o)) <= toordinal(DateOf(r))}
            shown == chart.value.latest_night
        IN  /\ night = {} => shown = NoRecord
            /\ night # {} =>
                 \E r \in best :
                    /\ shown.time = Timestamp(r.time.v[1], r.time.v[2], r.time.v[3],
                                              r.time.v[4], r.time.v[5])
                    /\ shown.amount =
                         AmountOf(spending_df, {o \in night : DateOf(o) = DateOf(r)})
            /\ \A v \in Range(chart.value.meal_summary) :
                 /\ PeriodOf(minutes(v.first_time)) = v.meal
                 /\ v.total_amount =
                      AmountOf(spending_df,
                               {o \in of_year : DateOf(o) = v.date
                                                /\ PeriodOf(MinuteOfDay(o)) = v.meal})

\* C10: with a swipe at 23:00 and one at 20:00 the 20:00 visit was shown
C10_Witness ==
    /\ pc = "extremes"
    /\ chart.status = "saved"
    /\ {<<MinuteOfDay(r), r.time.v[1]>> : r \in Parseable(spending_df)}
          = {<<23 * 60, DefaultYear>>, <<20 * 60, DefaultYear>>}
    /\ minutes(chart.value.latest_night.time) = 20 * 60
    /\ chart.value.latest_night.amount = 500

\* the Excel files and the .csv files of the search directory
ExcelFiles == {f \in DirFiles : files[f] > 0 /\ f.ext \in {"xlsx", "xls"}}
CsvFiles == {f \in DirFiles : files[f] > 0 /\ f.ext = "csv"}

\* C7: in a directory with no .csv file find_data_file returns the file of the
\* greatest modification time among all .xlsx and .xls files together.
C7_NewestExcelOfBoth ==
    (pc = "load_data" /\ file_path.kind # "file" /\ CsvFiles = {}) =>
        /\ found \in ExcelFiles
        /\ \A f \in ExcelFiles : files[f] <= files[found]

\* C8: given no path or a directory, find_data_file returns the most recently
\* modified .csv whenever there is one, whatever Excel files there are, and raises
\* the no-data-file error, returning nothing, when there is no .csv, .xlsx or .xls.
C8_CsvPreferredOrNoDataFile ==
    (pc # "find_data_file" /\ file_path.kind \in {"none", "dir"}) =>
        /\ CsvFiles # {} =>
              /\ pc = "load_data"
              /\ found \in CsvFiles
              /\ \A f \in CsvFiles : files[f] <= files[found]
        /\ (CsvFiles = {} /\ ExcelFiles = {}) =>
              /\ pc = "aborted"
              /\ error = "FileNotFoundError"
              /\ found = NoPath
        /\ pc = "aborted" => CsvFiles = {} /\ ExcelFiles = {}

\* C8: the newer of two .csv files was returned although an Excel file is newer
\* than both
C8_Witness ==
    /\ pc = "load_data"
    /\ file_path.kind = "dir"
    /\ found = [name |-> "b", ext |-> "csv"]
    /\ files[[name |-> "a", ext |-> "csv"]] = 1
    /\ files[found] = 2
    /\ files[[name |-> "e", ext |-> "xls"]] = 3

\* whether the location text of a row holds a denylisted substring
Denylisted(r) ==
    /\ ~r.location.na
    /\ \E i, j \in 1..Len(r.location.s) :
          SubSeq(r.location.s, i, j)
              \in {<<"lou">>, <<"tian", "mao">>, <<"xue", "sheng", "ka", "cheng", "ben">>}
IsSpending(r) == r.event \in {"cardholder spend", "offline-code online spend"}
\* preprocess_data has returned in this run
Preprocessed ==
    /\ pc \notin {"find_data_file", "load_data", "preprocess_data"}
    /\ pc = "aborted" => error \in {"KeyError", "plot of an empty Series"}

\* C3: the location totals main computes sum to the sum of the amounts of all
\* spending-kind transactions of the preprocessed table, those with a missing
\* location included.
C3_LocationTotalsConserve ==
    (Preprocessed /\ pc \notin {"filter_spending", "location_spending", "aborted"}) =>
        SumSeq([i \in 1..Len(location_spending) |-> location_spending[i].total])
            = AmountOf(df, {r \in Range(df.rows) : IsSpending(r)})

\* C6: once the data file is loaded no chart stage ends the run: each of the twelve
\* writes its image or reports a skip, and the run reaches the summary.
C6_NoStageEndsTheRun == ~(pc = "aborted" /\ output_dir)

PlacesOf(frame) == {r.location : r \in Range(frame.rows)} \ {Missing}
\* the distinct-visit count of a place in a period: the days of the input with a
\* transaction there in the period
VisitCount(frame, l, c) ==
    Cardinality({DateOf(r) : r \in {x \in InPeriod(frame, l) : x.location = c}})
VisitCounts(frame, l) == [c \in PlacesOf(frame) |-> VisitCount(frame, l, c)]
\* the places of a period with a count above 0 and below 3, and those of 3 or more
LowPlaces(frame, l) ==
    {c \in PlacesOf(frame) : 0 < VisitCount(frame, l, c) /\ VisitCount(frame, l, c) < 3}
HighPlaces(frame, l) == {c \in PlacesOf(frame) : VisitCount(frame, l, c) >= 3}
PeriodTotal(frame, l) == SumOver(VisitCounts(frame, l), PlacesOf(frame))
\* the segments of a period are: one 'other' segment summing the places in merged,
\* and one segment of its own count for each place in own
SegmentsAre(seg, counts, merged, own) ==
    /\ DOMAIN seg = own \cup (IF merged # {} THEN {Other} ELSE {})
    /\ \A c \in own : seg[c] = counts[c]
    /\ merged # {} => seg[Other] = SumOver(counts, merged)

\* C11 as stated: in every period, also one of fewer than 3 visits in all, the places
\* of a count above 0 and below 3 are drawn as one 'other' segment of the sum of
\* their counts, the places of 3 or more keep their own segment, and a period with
\* no such place has no 'other' segment.
C11_LowCountsMergedInEveryPeriod ==
    (pc = "meal_canteen" /\ chart.status = "saved") =>
        \A l \in Periods :
            SegmentsAre(chart.value.segments[l], VisitCounts(spending_df, l),
                        LowPlaces(spending_df, l), HighPlaces(spending_df, l))

\* C11 amended: in every period of at least 3 visits in all, the places of a count
\* above 0 and below 3 are drawn as one 'other' segment of the sum of their counts
\* and the places of 3 or more keep their own segment; in a period of fewer than 3
\* visits in all every visited place keeps its own segment and there is no 'other'
\* segment; a period with no low-count place has no 'other' segment.
C11_LowCountsMergedFromThreeVisits ==
    (pc = "meal_canteen" /\ chart.status = "saved") =>
        \A l \in Periods :
            IF PeriodTotal(spending_df, l) >= 3
            THEN SegmentsAre(chart.value.segments[l], VisitCounts(spending_df, l),
                             LowPlaces(spending_df, l), HighPlaces(spending_df, l))
            ELSE SegmentsAre(chart.value.segments[l], VisitCounts(spending_df, l),
                             {}, LowPlaces(spending_df, l))

\* C11: three lunches at one canteen and one at another were drawn as a segment of 3
\* and an 'other' segment of 1
C11_Witness ==
    /\ pc = "meal_canteen"
    /\ chart.status = "saved"
    /\ VisitCount(spending_df, "lunch", ZiJing) = 3
    /\ VisitCount(spending_df, "lunch", TaoLi) = 1
    /\ DOMAIN chart.value.segments["lunch"] = {ZiJing, Other}
    /\ chart.value.segments["lunch"][ZiJing] = 3
    /\ chart.value.segments["lunch"][Other] = 1

\* C16: the chart never fails on the colour of a segment: every segment drawn has a
\* colour, 'other' has a colour iff some period draws an 'other' segment, and the
\* segments of a period sum to its distinct (date, period, place) visits.
C16_SegmentsHaveColours ==
    pc = "meal_canteen" =>
        /\ chart.status # "raised"
        /\ chart.status = "saved" =>
              /\ \A l \in Periods :
                    /\ DOMAIN chart.value.segments[l] \subseteq chart.value.canteen_colors
                    /\ \A c \in DOMAIN chart.value.segments[l] :
                          chart.value.segments[l][c] > 0
                    /\ SumOver(chart.value.segments[l], DOMAIN chart.value.segments[l])
                         = PeriodTotal(spending_df, l)
              /\ (Other \in chart.value.canteen_colors)
                    <=> (\E l \in Periods : Other \in DOMAIN chart.value.segments[l])
              /\ chart.value.canteen_colors \ {Other} = PlacesOf(spending_df)
                    \cap {c \in PlacesOf(spending_df) :
                            \E l \in Periods : VisitCount(spending_df, l, c) > 0}

\* C16: a lunch bar merged into 'other' beside a dinner bar of one visit that kept
\* the colour of its canteen
C16_Witness ==
    /\ pc = "meal_canteen"
    /\ chart.status = "saved"
    /\ DOMAIN chart.value.segments["lunch"] = {Other}
    /\ chart.value.segments["lunch"][Other] = 3
    /\ DOMAIN chart.value.segments["dinner"] = {ZiJing}
    /\ chart.value.canteen_colors = {ZiJing, TaoLi, Other}

\* the transactions of a (date, period) visit of the year, read from the input
VisitRows(frame, d, l) == {r \in InPeriod(frame, l) : DateOf(r) = d}
\* the second of the year a transaction of the input was made at
SecondOf(r) == ((r.time.v[2] * 24 + r.time.v[3]) * 60 + r.time.v[4]) * 60 + r.time.v[5]
\* the chronologically first transactions of a visit (several when made in the same second)
FirstRows(frame, d, l) ==
    {r \in VisitRows(frame, d, l) : \A o \in VisitRows(frame, d, l) : SecondOf(r) <= SecondOf(o)}
\* the place the table shows for a transaction: its location, 未知 when it has none
ShownPlace(r) == IF r.location.na THEN Text(<<"unknown">>) ELSE r.location

\* C12: the location recorded for every (date, period) visit is the location of a
\* chronologically first transaction of the visit, the one whose time is recorded;
\* the location of a later transaction is never recorded in its place.
C12_LocationOfFirstTransaction ==
    (pc = "extremes" /\ chart.status = "saved") =>
        \A i \in 1..Len(chart.value.meal_summary) :
            LET m == chart.value.meal_summary[i] IN
            \E r \in FirstRows(spending_df, m.date, m.meal) :
                /\ m.first_time.v = r.time.v
                /\ m.first_location = ShownPlace(r)

\* the transactions of the input that fall in the day window 06:30-22:30
InWindow(frame) == {r \in Parseable(frame) : PeriodOf(MinuteOfDay(r)) \in Periods}

\* C13: prepare_meal_period_data returns a skip reason exactly when no row survives:
\* the reason 'no parseable timestamps' iff no timestamp of the table parses, the
\* other reason 'no timestamps within the day window' iff some parses and none
\* falls in [06:30, 22:30); otherwise no reason, a non-empty table whose rows all
\* carry one of the four labels, and the labels breakfast, lunch, dinner, late snack
\* in that order.
C13_SkipReasons ==
    pc = "classified" =>
        /\ (chart.err = "no usable transaction time") <=> (Parseable(spending_df) = {})
        /\ (chart.err = "no record in 6:30-22:30")
              <=> (Parseable(spending_df) # {} /\ InWindow(spending_df) = {})
        /\ (chart.err = "") <=> (InWindow(spending_df) # {})
        /\ chart.err = "" =>
              /\ chart.df.rows # <<>>
              /\ \A i \in 1..Len(chart.df.rows) : chart.df.rows[i].meal \in Periods
              /\ chart.labels = <<"breakfast", "lunch", "dinner", "late_snack">>
        /\ chart.err # "" => chart.df.rows = <<>>

\* C13: a table of one unreadable timestamp and one at 22:30 was skipped for having
\* nothing in the day window
C13_Witness ==
    /\ pc = "classified"
    /\ Len(spending_df.rows) = 2
    /\ {MinuteOfDay(r) : r \in Parseable(spending_df)} = {1350}
    /\ Cardinality(Parseable(spending_df)) = 1
    /\ chart.err = "no record in 6:30-22:30"

\* a step of one of the twelve stages leaves both tables of main as they were
StageLeavesTables == pc \in Range(Stages) => (df' = df /\ spending_df' = spending_df)

\* C14: no stage changes the table it is given: over each of the twelve calls of
\* main, whether the stage saved its image, skipped or raised, the preprocessed
\* table and the spending table main holds keep their rows, columns and values.
C14_StagesLeaveTables ==
    [][StageLeavesTables]_vars

\* C14: the run ended with the meal charts saved, and the spending table still holds
\* the timestamps as the text of the file, with no period or date column
C14_Witness ==
    /\ pc = "done"
    /\ {"meal totals", "meal counts", "meal canteen", "yearly extremes"} \subseteq images
    /\ spending_df.rows # <<>>
    /\ spending_df = filter_spending(df)
    /\ \A r \in Range(spending_df.rows) : r.time.tag = "str" /\ r.meal = "" /\ r.date = <<>>
    /\ spending_df.columns = FileColumns
    /\ \E r \in Range(spending_df.rows) : r.time = BadText

\* the conditions that end a run by design: no data file found, an unsupported
\* extension, no parser installed for an Excel file
FatalConditions == {"FileNotFoundError", "ValueError", "ImportError"}

\* C15: a fatal condition occurs only before any output exists: the output
\* directory is made only after the file is found and loaded, so a run that
\* ended on a fatal condition made no output directory and wrote no image.
C15_FatalBeforeOutput ==
    /\ (pc = "aborted" /\ error \in FatalConditions) => (~output_dir /\ images = {})
    /\ pc \in {"find_data_file", "load_data"} => (~output_dir /\ images = {})
    /\ (output_dir \/ images # {}) =>
          (found # NoPath /\ df.columns # {} /\ error \notin FatalConditions)

\* C15: an .xls file was found, no parser for it is installed, and the run ended
\* with no output directory
C15_Witness ==
    /\ pc = "aborted"
    /\ error = "ImportError"
    /\ found = [name |-> "e", ext |-> "xls"]
    /\ ~output_dir
    /\ images = {}

====
